---- MODULE Spec2Model ----
(***************************************************************************)
(* Critical Path Method engine of src/main.py: Activity, Network and       *)
(* NetworkBuilder.  Times are fixed-point numbers in thousandths of a time *)
(* unit, so that round(x, 2) of Activity.calculate_float is not the        *)
(* identity; float('inf') is the value Inf with IEEE arithmetic on it.     *)
(***************************************************************************)
EXTENDS Integers, Sequences, FiniteSets, TLC

\* ------------------------------------------------------------------ bounds
\* Distinct activity ids, entries of a predecessor list, and calls of
\* add_activity, of _link_successors and of calculate_cpm in one run.
NumIds == 3
MaxPreds == 2
MaxAdds == 3
MaxLinks == 2
MaxCalcs == 2

Ids == 1..NumIds

\* Durations an activity is given, in thousandths: -1, 0 and 1.
Durations == {-1000, 0, 1000}

RECURSIVE SeqsUpTo(_, _)
SeqsUpTo(S, n) ==
    IF n = 0 THEN {<<>>}
    ELSE LET shorter == SeqsUpTo(S, n - 1)
         IN  shorter \cup {Append(s, x) : s \in shorter, x \in S}

\* Predecessor lists an activity is given: ids in increasing order, any of them
\* possibly absent from the network.
PredecessorLists ==
    {p \in SeqsUpTo(Ids, MaxPreds) : \A i \in 1..(Len(p) - 1) : p[i] < p[i + 1]}

\* Ids are opaque dict keys: the k-th distinct id added is called k, so an
\* add_activity call names an id of the network or the next unused one.
KnownOrNextId(ks) == {id \in Ids : id <= Len(ks) + 1}

\* Contents of the file load_from_json reads: is_list is FALSE for a file that
\* cannot be read or parsed, or whose JSON value is not a list.
JsonFiles ==
    { [is_list |-> FALSE, data |-> <<>>],
      [is_list |-> TRUE,  data |-> <<>>],
      [is_list |-> TRUE,  data |-> << [id |-> 1, duration |-> 1000] >>],
      [is_list |-> TRUE,  data |-> << [id |-> 2, duration |-> 0, predecessors |-> <<1>>] >>],
      [is_list |-> TRUE,  data |-> << [id |-> 3], [duration |-> 1000] >>],
      [is_list |-> TRUE,  data |-> << [id |-> 1, duration |-> 1000],
                                      [id |-> 2, duration |-> 1004] >>],
      [is_list |-> TRUE,  data |-> << [id |-> 1, duration |-> 1000, predecessors |-> <<2>>],
                                      [id |-> 2, duration |-> 1000, predecessors |-> <<3>>] >>],
      [is_list |-> TRUE,  data |-> << [id |-> 1, duration |-> 1000],
                                      [id |-> 2, duration |-> 1000, predecessors |-> <<1>>],
                                      [id |-> 3, duration |-> -1000, predecessors |-> <<1, 2>>] >>] }

\* ------------------------------------------------------------ float values
Inf == 1000000000
NaN == Inf + 1

\* x - y as IEEE doubles compute it, on integers, Inf, -Inf and NaN.
FloatSub(x, y) ==
    IF x = NaN \/ y = NaN THEN NaN
    ELSE IF x = Inf /\ y = Inf THEN NaN
    ELSE IF x = -Inf /\ y = -Inf THEN NaN
    ELSE IF x = Inf \/ y = -Inf THEN Inf
    ELSE IF x = -Inf \/ y = Inf THEN -Inf
    ELSE x - y

\* x == y on doubles: NaN equals nothing.
FloatEq(x, y) == x # NaN /\ y # NaN /\ x = y

\* round(x, 2) on thousandths: the nearest hundredth, half to even; inf stays inf.
Round2(x) ==
    IF x = Inf \/ x = -Inf \/ x = NaN THEN x
    ELSE LET q == x \div 10
             r == x % 10
         IN  IF r < 5 THEN q * 10
             ELSE IF r > 5 THEN (q + 1) * 10
             ELSE IF q % 2 = 0 THEN q * 10 ELSE (q + 1) * 10

RECURSIVE MaxSeq(_)
MaxSeq(s) ==
    IF Len(s) = 1 THEN s[1]
    ELSE LET m == MaxSeq(Tail(s)) IN IF s[1] >= m THEN s[1] ELSE m

RECURSIVE MinSeq(_)
MinSeq(s) ==
    IF Len(s) = 1 THEN s[1]
    ELSE LET m == MinSeq(Tail(s)) IN IF s[1] <= m THEN s[1] ELSE m

RECURSIVE MapSeq(_, _)
MapSeq(s, f) == IF s = <<>> THEN <<>> ELSE <<f[s[1]]>> \o MapSeq(Tail(s), f)

\* Occurrences of x in the list s, and whether s holds x (x in s).
RECURSIVE Count(_, _)
Count(x, s) ==
    IF s = <<>> THEN 0 ELSE (IF s[1] = x THEN 1 ELSE 0) + Count(x, Tail(s))

Contains(s, x) == \E i \in 1..Len(s) : s[i] = x

\* ---------------------------------------------------------------- Activity
Activity(duration, predecessors) ==
    [ duration     |-> duration,
      predecessors |-> predecessors,
      successors   |-> <<>>,
      ES           |-> 0,
      EF           |-> 0,
      LS           |-> Inf,
      LF           |-> Inf,
      is_critical  |-> FALSE ]

\* calculate_early with EF accumulated onto the previous EF instead of ES.
calculate_early_accumulating(act, max_predecessor_ef) ==
    [act EXCEPT !.ES = max_predecessor_ef,
                !.EF = act.EF + act.duration]

calculate_early(act, max_predecessor_ef) ==
    [act EXCEPT !.ES = max_predecessor_ef,
                !.EF = max_predecessor_ef + act.duration]

\* The sanity check with <= for <: a zero-duration activity raises.
EarlyRaises_strict(act) == act.EF <= act.ES

\* The sanity check of calculate_early, on the activity it has just updated.
EarlyRaises(act) == act.EF < act.ES

\* calculate_late without the subtraction of the duration: LS = LF.
calculate_late_no_duration(act, min_successor_ls, project_deadline) ==
    LET lf == IF act.successors = <<>> THEN project_deadline ELSE min_successor_ls
    IN  [act EXCEPT !.LF = lf, !.LS = lf]

calculate_late(act, min_successor_ls, project_deadline) ==
    LET lf == IF act.successors = <<>> THEN project_deadline ELSE min_successor_ls
    IN  [act EXCEPT !.LF = lf, !.LS = FloatSub(lf, act.duration)]

calculate_float(act) ==
    LET total_float == FloatSub(act.LS, act.ES)
    IN  [act EXCEPT !.is_critical = FloatEq(Round2(total_float), 0)]

\* ----------------------------------------------------------------- Network
VARIABLES keys, activities, temp_data, project_duration, op, outcome, calls

vars == <<keys, activities, temp_data, project_duration, op, outcome, calls>>

\* How a call ends: it returns, or raises one of the two ValueErrors of the
\* engine (max() of no activities, line 93; the sanity check, line 32).
Returned == "returned"
EmptyNetworkError == "ValueError: max() arg is an empty sequence"
InvariantViolation == "ValueError: EF < ES"

\* Network.add_activity_object on the dict (ks, acts): an id already present
\* keeps its place in the insertion order.
add_activity_object(ks, acts, id, act) ==
    [ keys       |-> IF id \in DOMAIN acts THEN ks ELSE Append(ks, id),
      activities |-> [k \in DOMAIN acts \cup {id} |-> IF k = id THEN act ELSE acts[k]] ]

\* The predecessors' ES gathered instead of their EF.
PredecessorEfs_es(acts, act) ==
    MapSeq(SelectSeq(act.predecessors, LAMBDA p : p \in DOMAIN acts),
           [p \in DOMAIN acts |-> acts[p].ES])

PredecessorEfs(acts, act) ==
    MapSeq(SelectSeq(act.predecessors, LAMBDA p : p \in DOMAIN acts),
           [p \in DOMAIN acts |-> acts[p].EF])

SuccessorLsValues(acts, act) ==
    MapSeq(SelectSeq(act.successors, LAMBDA s : s \in DOMAIN acts),
           [s \in DOMAIN acts |-> acts[s].LS])

\* min for max over the predecessors' EF.
MaxPrevEf_min(acts, act) ==
    LET predecessor_efs == PredecessorEfs(acts, act)
    IN  IF predecessor_efs # <<>> THEN MinSeq(predecessor_efs) ELSE 0

MaxPrevEf(acts, act) ==
    LET predecessor_efs == PredecessorEfs(acts, act)
    IN  IF predecessor_efs # <<>> THEN MaxSeq(predecessor_efs) ELSE 0

\* max for min over the successors' LS.
MinNextLs_max(acts, act) ==
    LET successor_ls_values == SuccessorLsValues(acts, act)
    IN  IF successor_ls_values # <<>> THEN MaxSeq(successor_ls_values) ELSE Inf

MinNextLs(acts, act) ==
    LET successor_ls_values == SuccessorLsValues(acts, act)
    IN  IF successor_ls_values # <<>> THEN MinSeq(successor_ls_values) ELSE Inf

\* The forward pass from the i-th id on; it stops at the activity whose
\* calculate_early raises, which keeps the ES and EF just assigned.
RECURSIVE ForwardPass(_, _, _)
ForwardPass(ks, acts, i) ==
    IF i > Len(ks) THEN [activities |-> acts, raised |-> FALSE]
    ELSE LET aid  == ks[i]
             act  == calculate_early(acts[aid], MaxPrevEf(acts, acts[aid]))
             next == [acts EXCEPT ![aid] = act]
         IN  IF EarlyRaises(act) THEN [activities |-> next, raised |-> TRUE]
             ELSE ForwardPass(ks, next, i + 1)

\* max(..., default=0): no activities give 0 instead of raising.
ProjectDuration_default(acts) ==
    [raised |-> FALSE,
     value  |-> IF DOMAIN acts = {} THEN 0
                ELSE CHOOSE m \in {acts[a].EF : a \in DOMAIN acts} :
                         \A a \in DOMAIN acts : acts[a].EF <= m]

\* min for max over the activities' EF.
ProjectDuration_min(acts) ==
    IF DOMAIN acts = {} THEN [raised |-> TRUE, value |-> 0]
    ELSE [raised |-> FALSE,
          value  |-> CHOOSE m \in {acts[a].EF : a \in DOMAIN acts} :
                         \A a \in DOMAIN acts : acts[a].EF >= m]

\* max(a.EF for a in self.activities.values()), which raises on no activities.
ProjectDuration(acts) ==
    IF DOMAIN acts = {} THEN [raised |-> TRUE, value |-> 0]
    ELSE [raised |-> FALSE,
          value  |-> CHOOSE m \in {acts[a].EF : a \in DOMAIN acts} :
                         \A a \in DOMAIN acts : acts[a].EF <= m]

\* The backward pass from the i-th id down to the first.
RECURSIVE BackwardPass(_, _, _, _)
BackwardPass(ks, acts, i, deadline) ==
    IF i < 1 THEN acts
    ELSE LET aid == ks[i]
             act == calculate_float(
                        calculate_late(acts[aid], MinNextLs(acts, acts[aid]), deadline))
         IN  BackwardPass(ks, [acts EXCEPT ![aid] = act], i - 1, deadline)

\* Network.calculate_cpm on the dict (ks, acts).  pd is the value the local
\* project_duration had in the last call that assigned it; a call that raises
\* before or at line 93 leaves it as it was.
CalculateCpm(ks, acts, pd) ==
    LET fwd == ForwardPass(ks, acts, 1)
        max == ProjectDuration(fwd.activities)
    IN  IF fwd.raised
        THEN [activities |-> fwd.activities, outcome |-> InvariantViolation,
              project_duration |-> pd]
        ELSE IF max.raised
        THEN [activities |-> fwd.activities, outcome |-> EmptyNetworkError,
              project_duration |-> pd]
        ELSE [activities |-> BackwardPass(ks, fwd.activities, Len(ks), max.value),
              outcome |-> Returned,
              project_duration |-> max.value]

\* ---------------------------------------------------------- NetworkBuilder
\* The inner loop appending an id only when the list does not hold it yet.
RECURSIVE LinkActivity_once(_, _, _)
LinkActivity_once(acts, aid, j) ==
    IF j > Len(acts[aid].predecessors) THEN acts
    ELSE LET pred_id == acts[aid].predecessors[j]
         IN  IF pred_id \in DOMAIN acts /\ ~Contains(acts[pred_id].successors, aid)
             THEN LinkActivity_once(
                      [acts EXCEPT ![pred_id].successors = Append(@, aid)], aid, j + 1)
             ELSE LinkActivity_once(acts, aid, j + 1)

\* The inner loop of _link_successors for the activity aid, from its j-th
\* predecessor on.
RECURSIVE LinkActivity(_, _, _)
LinkActivity(acts, aid, j) ==
    IF j > Len(acts[aid].predecessors) THEN acts
    ELSE LET pred_id == acts[aid].predecessors[j]
         IN  IF pred_id \in DOMAIN acts
             THEN LinkActivity(
                      [acts EXCEPT ![pred_id].successors = Append(@, aid)], aid, j + 1)
             ELSE LinkActivity(acts, aid, j + 1)

\* The outer loop of _link_successors, from the i-th activity on.
RECURSIVE LinkFrom(_, _, _)
LinkFrom(ks, acts, i) ==
    IF i > Len(ks) THEN acts
    ELSE LinkFrom(ks, LinkActivity(acts, ks[i], 1), i + 1)

LinkSuccessors(ks, acts) == LinkFrom(ks, acts, 1)

\* The loop of build() over the items of _temp_data, from the i-th on.
RECURSIVE AddItems(_, _, _, _)
AddItems(ks, acts, items, i) ==
    IF i > Len(items) THEN [keys |-> ks, activities |-> acts]
    ELSE LET item == items[i]
         IN  IF "id" \in DOMAIN item /\ "duration" \in DOMAIN item
             THEN LET preds == IF "predecessors" \in DOMAIN item
                               THEN item.predecessors ELSE <<>>
                      net == add_activity_object(ks, acts, item.id,
                                                 Activity(item.duration, preds))
                  IN  AddItems(net.keys, net.activities, items, i + 1)
             ELSE AddItems(ks, acts, items, i + 1)

\* NetworkBuilder.build: add the loaded items, link, and compute when the
\* network is not empty.
Build(ks, acts, items, pd) ==
    LET net    == AddItems(ks, acts, items, 1)
        linked == LinkSuccessors(net.keys, net.activities)
    IN  IF DOMAIN linked # {}
        THEN LET cpm == CalculateCpm(net.keys, linked, pd)
             IN  [keys |-> net.keys, activities |-> cpm.activities,
                  outcome |-> cpm.outcome, project_duration |-> cpm.project_duration]
        ELSE [keys |-> net.keys, activities |-> linked,
              outcome |-> Returned, project_duration |-> pd]

\* ------------------------------------------------------------------ state
\* keys and activities are the dict Network.activities (insertion order and
\* entries), temp_data is NetworkBuilder._temp_data, op the last method called
\* and outcome how it ended; calls counts the calls made so far.
Init ==
    /\ keys = <<>>
    /\ activities = <<>>
    /\ temp_data = <<>>
    /\ project_duration = 0
    /\ op = "__init__"
    /\ outcome = Returned
    /\ calls = [add_activity |-> 0, link_successors |-> 0, calculate_cpm |-> 0]

add_activity(id, duration, predecessors) ==
    LET net == add_activity_object(keys, activities, id, Activity(duration, predecessors))
    IN  /\ calls.add_activity < MaxAdds
        /\ keys' = net.keys
        /\ activities' = net.activities
        /\ op' = "add_activity"
        /\ outcome' = Returned
        /\ calls' = [calls EXCEPT !.add_activity = @ + 1]
        /\ UNCHANGED <<temp_data, project_duration>>

load_from_json(file) ==
    /\ temp_data' = IF file.is_list THEN file.data ELSE <<>>
    /\ op' = "load_from_json"
    /\ outcome' = Returned
    /\ UNCHANGED <<keys, activities, project_duration, calls>>

link_successors ==
    /\ calls.link_successors < MaxLinks
    /\ activities' = LinkSuccessors(keys, activities)
    /\ op' = "_link_successors"
    /\ outcome' = Returned
    /\ calls' = [calls EXCEPT !.link_successors = @ + 1]
    /\ UNCHANGED <<keys, temp_data, project_duration>>

build ==
    /\ calls.link_successors < MaxLinks
    /\ calls.calculate_cpm < MaxCalcs
    /\ LET b == Build(keys, activities, temp_data, project_duration)
       IN  /\ keys' = b.keys
           /\ activities' = b.activities
           /\ outcome' = b.outcome
           /\ project_duration' = b.project_duration
           /\ calls' = [calls EXCEPT !.link_successors = @ + 1,
                                     !.calculate_cpm = IF b.keys # <<>> THEN @ + 1 ELSE @]
    /\ op' = "build"
    /\ UNCHANGED temp_data

calculate_cpm ==
    /\ calls.calculate_cpm < MaxCalcs
    /\ LET cpm == CalculateCpm(keys, activities, project_duration)
       IN  /\ activities' = cpm.activities
           /\ outcome' = cpm.outcome
           /\ project_duration' = cpm.project_duration
    /\ op' = "calculate_cpm"
    /\ calls' = [calls EXCEPT !.calculate_cpm = @ + 1]
    /\ UNCHANGED <<keys, temp_data>>

\* The public methods, on activities given to add_activity.
Next ==
    \/ \E id \in KnownOrNextId(keys), d \in Durations, p \in PredecessorLists :
           add_activity(id, d, p)
    \/ build
    \/ calculate_cpm

Spec == Init /\ [][Next]_vars

\* The builder as its fluent interface is used: add_activity and build alone.
NextBuilder ==
    \/ \E id \in KnownOrNextId(keys), d \in Durations, p \in PredecessorLists :
           add_activity(id, d, p)
    \/ build

SpecBuilder == Init /\ [][NextBuilder]_vars

\* The builder with its linking step called directly as well.
NextLink ==
    \/ \E id \in KnownOrNextId(keys), d \in Durations, p \in PredecessorLists :
           add_activity(id, d, p)
    \/ link_successors
    \/ build

SpecLink == Init /\ [][NextLink]_vars

\* Every method but add_activity, on activities read by load_from_json.
NextJson ==
    \/ \E file \in JsonFiles : load_from_json(file)
    \/ link_successors
    \/ build
    \/ calculate_cpm

SpecJson == Init /\ [][NextJson]_vars

\* ----------------------------------------------------------------- claims
Present == DOMAIN activities

Pos(id) == CHOOSE i \in 1..Len(keys) : keys[i] = id

\* The declared predecessors of a that exist in the network.
ExistingPredecessors(a) ==
    {p \in Present : Contains(activities[a].predecessors, p)}

\* The last call was a computation of the schedule that returned.
Scheduled ==
    /\ op \in {"build", "calculate_cpm"}
    /\ outcome = Returned
    /\ keys # <<>>

\* Every predecessor was inserted before its dependents.
Ordered == \A a \in Present : \A p \in ExistingPredecessors(a) : Pos(p) < Pos(a)

\* The successor lists hold exactly the declared dependents.
Linked ==
    \A a \in Present : \A b \in Present :
        Contains(activities[a].successors, b) <=> Contains(activities[b].predecessors, a)

\* The successor lists hold each declared dependent once per declaration.
LinkedOnce ==
    \A a \in Present : \A b \in Present :
        Count(b, activities[a].successors) = Count(a, activities[b].predecessors)

NonNegative == \A a \in Present : activities[a].duration >= 0

WellFormed == Ordered /\ NonNegative /\ LinkedOnce

\* C1: after calculate_cpm on a non-empty, linked network whose predecessors
\* all precede their dependents, the ES of every activity is the largest EF
\* among its declared predecessors that exist in the network, and 0 when it has
\* none or none of them exists.
C1_EarliestStart ==
    Scheduled /\ Ordered /\ Linked =>
        \A a \in Present :
            IF ExistingPredecessors(a) = {}
            THEN activities[a].ES = 0
            ELSE /\ \E p \in ExistingPredecessors(a) : activities[a].ES = activities[p].EF
                 /\ \A p \in ExistingPredecessors(a) : activities[p].EF <= activities[a].ES

\* An activity whose ES is the larger EF of two predecessors that differ in EF.
C1_Witness ==
    /\ Scheduled /\ Ordered /\ Linked
    /\ \E a \in Present : \E p \in ExistingPredecessors(a) : \E q \in ExistingPredecessors(a) :
           /\ activities[p].EF < activities[q].EF
           /\ activities[a].ES = activities[q].EF

\* C2 as stated: after calculate_cpm returns, every activity has
\* EF = ES + duration and LF - LS = duration.
C2_Original ==
    Scheduled =>
        \A a \in Present :
            /\ activities[a].EF = activities[a].ES + activities[a].duration
            /\ FloatEq(FloatSub(activities[a].LF, activities[a].LS), activities[a].duration)

\* C2 amended: after calculate_cpm returns, every activity has
\* EF = ES + duration, and LF - LS = duration when its LF is finite.
C2_FiniteLate ==
    Scheduled =>
        \A a \in Present :
            /\ activities[a].EF = activities[a].ES + activities[a].duration
            /\ activities[a].LF # Inf =>
                   FloatEq(FloatSub(activities[a].LF, activities[a].LS),
                           activities[a].duration)

\* A schedule with a positive duration between a finite LS and LF, next to an
\* activity whose LF is infinite.
C2_Witness ==
    /\ Scheduled
    /\ \E a \in Present : activities[a].LF # Inf /\ activities[a].duration > 0
    /\ \E a \in Present : activities[a].LF = Inf

\* C3: after calculate_cpm returns, the project duration of the backward pass
\* is the largest EF of the network, and every activity with no successors has
\* that LF.
C3_ProjectDuration ==
    Scheduled =>
        /\ \A a \in Present : activities[a].EF <= project_duration
        /\ \E a \in Present : activities[a].EF = project_duration
        /\ \A a \in Present :
               activities[a].successors = <<>> => activities[a].LF = project_duration

\* A schedule in which an activity without successors finishes before the
\* project does.
C3_Witness ==
    /\ Scheduled
    /\ \E a \in Present :
           /\ activities[a].successors = <<>>
           /\ activities[a].EF < project_duration
           /\ activities[a].LF = project_duration
    /\ \E a \in Present : activities[a].successors # <<>>

\* C4: after calculate_cpm on a well-formed network (ordered, hence acyclic,
\* non-negative durations, successors linked exactly once) every activity has
\* LS >= ES.
C4_NonNegativeSlack ==
    Scheduled /\ WellFormed =>
        \A a \in Present :
            /\ activities[a].LS >= activities[a].ES
            /\ FloatSub(activities[a].LS, activities[a].ES) >= 0

\* A well-formed schedule of three activities, one of them with slack.
C4_Witness ==
    /\ Scheduled /\ WellFormed
    /\ Len(keys) = 3
    /\ \E a \in Present : activities[a].successors # <<>>
    /\ \E a \in Present : activities[a].LS > activities[a].ES

MaxEarlyFinish ==
    CHOOSE m \in {activities[a].EF : a \in Present} :
        \A a \in Present : activities[a].EF <= m

\* A chain of at most n critical activities, each a declared predecessor of
\* the next, from an activity with no predecessor in the network to a, whose
\* durations add up to total.
RECURSIVE CriticalChainTo(_, _, _)
CriticalChainTo(a, total, n) ==
    /\ activities[a].is_critical
    /\ \/ ExistingPredecessors(a) = {} /\ activities[a].duration = total
       \/ /\ n > 1
          /\ \E p \in ExistingPredecessors(a) :
                 CriticalChainTo(p, total - activities[a].duration, n - 1)

\* C5: after calculate_cpm on a non-empty, linked, ordered network there is a
\* chain of critical activities, each a declared predecessor of the next, from
\* an activity with no predecessor (none that exists in the network) to one
\* with no successors, whose durations add up to the largest EF.
C5_CriticalChain ==
    Scheduled /\ Ordered /\ Linked =>
        \E a \in Present :
            /\ activities[a].successors = <<>>
            /\ CriticalChainTo(a, MaxEarlyFinish, Cardinality(Present))

\* A schedule whose critical chain has a predecessor and a dependent, beside
\* an activity that is not critical.
C5_Witness ==
    /\ Scheduled /\ Ordered /\ Linked
    /\ \E a \in Present : ~activities[a].is_critical
    /\ \E a \in Present :
           /\ activities[a].successors = <<>>
           /\ ExistingPredecessors(a) # {}
           /\ CriticalChainTo(a, MaxEarlyFinish, Cardinality(Present))

\* C6 as stated: a calculate_cpm that follows a computed schedule, on the
\* unmodified, already linked network, returns and leaves every activity with
\* the ES, EF, LS, LF and is_critical it had.
C6_Original ==
    [][Scheduled /\ calls.link_successors >= 1 /\ op' = "calculate_cpm" =>
           outcome' = Returned /\ activities' = activities]_vars

\* C6 amended: the same, on a network whose predecessors all precede their
\* dependents and whose successor lists hold exactly the declared dependents.
C6_OrderedIdempotent ==
    [][Scheduled /\ Ordered /\ Linked /\ op' = "calculate_cpm" =>
           outcome' = Returned /\ activities' = activities]_vars

\* The second computation of three activities added, linked and computed by
\* one build: the third depends on the first two, so none was added later.
C6_Witness ==
    /\ Scheduled /\ Ordered /\ Linked
    /\ op = "calculate_cpm"
    /\ calls = [add_activity |-> 3, link_successors |-> 1, calculate_cpm |-> 2]
    /\ keys = <<1, 2, 3>>
    /\ activities[3].predecessors = <<1, 2>>
    /\ activities[2].predecessors = <<1>>
    /\ activities[2].duration > 0

\* C7: calculate_cpm on a network with no activities raises (the ValueError of
\* max() on an empty sequence) and returns no schedule.
C7_EmptyNetwork ==
    op = "calculate_cpm" /\ keys = <<>> =>
        outcome = EmptyNetworkError /\ activities = <<>>

\* calculate_cpm called on the empty network that build() returned.
C7_Witness ==
    /\ op = "calculate_cpm"
    /\ keys = <<>>
    /\ calls.link_successors >= 1
    /\ outcome = EmptyNetworkError

\* C8 as stated: on every non-empty network, whatever its durations, dangling
\* references, insertion order or cycles, calculate_cpm returns.
C8_Original ==
    op \in {"build", "calculate_cpm"} /\ keys # <<>> => outcome = Returned

\* C8 amended: on every non-empty network whose durations are not negative,
\* whatever its dangling references, insertion order or cycles, calculate_cpm
\* runs both passes and returns.
C8_NonNegativeDurations ==
    op \in {"build", "calculate_cpm"} /\ keys # <<>> /\ NonNegative =>
        /\ outcome = Returned
        /\ \A a \in Present :
               /\ activities[a].EF = activities[a].ES + activities[a].duration
               /\ activities[a].LS = FloatSub(activities[a].LF, activities[a].duration)

\* A returned schedule of a network with a dangling reference, a predecessor
\* inserted after its dependent, a zero duration and a negative LS.
C8_Witness ==
    /\ Scheduled
    /\ ~Ordered
    /\ \E a \in Present : \E i \in 1..Len(activities[a].predecessors) :
           activities[a].predecessors[i] \notin Present
    /\ \E a \in Present : activities[a].duration = 0
    /\ \E a \in Present : activities[a].LS < 0

\* C9: in every network build() returns, A.successors contains B exactly when
\* B.predecessors contains A.
C9_SuccessorsMatchPredecessors ==
    op = "build" /\ outcome = Returned => Linked

\* C10: _link_successors on a network that is linked once, called directly or
\* by a build() that adds nothing, appends every successor id again: each
\* occurs twice as often as before, so the network changes whenever an activity
\* has a predecessor in it.
C10_LinkTwiceDoubles ==
    [][LinkedOnce /\ (op' = "_link_successors" \/ (op' = "build" /\ temp_data = <<>>)) =>
           /\ \A a \in Present : \A b \in Present :
                  Count(b, activities'[a].successors)
                      = 2 * Count(b, activities[a].successors)
           /\ (\E a \in Present : ExistingPredecessors(a) # {}) =>
                  activities' # activities]_vars

\* The second _link_successors in a row: a dependent declared once is listed
\* twice.
C10_Witness ==
    /\ op = "_link_successors"
    /\ calls.link_successors = 2
    /\ \E a \in Present : \E b \in Present :
           /\ Count(a, activities[b].predecessors) = 1
           /\ Count(b, activities[a].successors) = 2

====
